---------------------------- MODULE Spec2Model ----------------------------
(***************************************************************************)
(* Model of src/mexc.py: the MEXC dust-conversion bot.                     *)
(*                                                                         *)
(*   - the signer (_sign_v3) with urlencode(quote_via=quote) and the       *)
(*     decimal formatting of the timestamp, as operators on strings;       *)
(*   - the workflow MEXCApiClient.run (get_dust_assets, dust_transfer,     *)
(*     send_telegram_message, sign_request, _get_server_time), one action  *)
(*     per awaited network call, each followed by the code that runs up to *)
(*     the next awaited call;                                              *)
(*   - job and the scheduler loop.                                         *)
(*                                                                         *)
(* Representation.  A Python str is a sequence of one-character strings,   *)
(* so that encoding and formatting are computed and not assumed.  A dict   *)
(* is the sequence of its <<key, value>> pairs in insertion order.  A      *)
(* Python int that does not fit the checker's integers (an epoch in        *)
(* milliseconds) is the sequence of its base-10^6 limbs, most significant  *)
(* first.  HMAC-SHA256 is the pair of its key and message (an injective    *)
(* keyed hash).                                                            *)
(***************************************************************************)
EXTENDS Integers, Sequences, FiniteSets, TLC

VARIABLES
    pc,             \* position of the program: the call awaited next, or how run ended
    runs,           \* number of times the scheduler has started job
    mexc,           \* the MEXCApiClient built by job for the current run
    params,         \* sign_request's params: its argument, then the mapping sent
    req_time,       \* sign_request's req_time
    dust_assets,    \* run's dust_assets
    convert_assets, \* run's convert_assets
    payload,        \* the argument of send_telegram_message
    pending,        \* what dust_transfer raises after the notification
    result,         \* run's result
    calls,          \* the network calls of the current run, with their outcomes
    log,            \* the log lines of the current job
    history,        \* how each finished run ended, oldest first
    sign_args,      \* arguments of a direct call of _sign_v3
    sign_ret        \* what that call signed and returned

vars == <<pc, runs, mexc, params, req_time, dust_assets, convert_assets,
          payload, pending, result, calls, log, history,
          sign_args, sign_ret>>

runVars == <<pc, runs, mexc, params, req_time, dust_assets, convert_assets,
             payload, pending, result, calls, log, history>>

-----------------------------------------------------------------------------
(* Bounds of the model. *)

MaxRuns == 2      \* scheduler ticks explored
MaxDust == 2      \* longest dust list the exchange returns
MaxValLen == 2    \* longest parameter value handed to _sign_v3 directly
MaxTick == 1      \* server times range over Epoch .. Epoch + MaxTick

-----------------------------------------------------------------------------
(* Strings. *)

RECURSIVE Concat(_)
Concat(ss) == IF ss = <<>> THEN <<>> ELSE Head(ss) \o Concat(Tail(ss))

\* sep.join(ss)
RECURSIVE Join(_, _)
Join(sep, ss) ==
    IF ss = <<>> THEN <<>>
    ELSE IF Len(ss) = 1 THEN ss[1]
    ELSE ss[1] \o sep \o Join(sep, Tail(ss))

DigitChars == <<"0", "1", "2", "3", "4", "5", "6", "7", "8", "9">>
HexChars == DigitChars \o <<"A", "B", "C", "D", "E", "F">>

\* decimal digits of a natural number below 10^6
RECURSIVE Dec(_)
Dec(n) == IF n < 10 THEN <<DigitChars[n + 1]>>
          ELSE Dec(n \div 10) \o <<DigitChars[(n % 10) + 1]>>

RECURSIVE ZeroPad(_, _)
ZeroPad(s, w) == IF Len(s) >= w THEN s ELSE ZeroPad(<<"0">> \o s, w)

\* str(n) of an int given by its base-10^6 limbs
RECURSIVE LimbsTail(_)
LimbsTail(ls) == IF ls = <<>> THEN <<>>
                 ELSE ZeroPad(Dec(Head(ls)), 6) \o LimbsTail(Tail(ls))

IntStr(n) == Dec(Head(n)) \o LimbsTail(Tail(n))

\* urllib.parse.quote: the characters never quoted
Letters ==
    {"A", "B", "C", "D", "E", "F", "G", "H", "I", "J", "K", "L", "M",
     "N", "O", "P", "Q", "R", "S", "T", "U", "V", "W", "X", "Y", "Z",
     "a", "b", "c", "d", "e", "f", "g", "h", "i", "j", "k", "l", "m",
     "n", "o", "p", "q", "r", "s", "t", "u", "v", "w", "x", "y", "z"}

AlwaysSafe == Letters \cup {DigitChars[i] : i \in 1..10} \cup {"_", ".", "-", "~"}

\* ord(c) of the other characters the model uses
Ord(c) == CASE c = " " -> 32
            [] c = "%" -> 37
            [] c = "&" -> 38
            [] c = "+" -> 43
            [] c = "," -> 44
            [] c = "/" -> 47
            [] c = "=" -> 61

\* quote(c, safe='') of one character: '%XX' with upper-case hex digits
QuoteChar(c) == IF c \in AlwaysSafe THEN <<c>>
                ELSE <<"%", HexChars[(Ord(c) \div 16) + 1], HexChars[(Ord(c) % 16) + 1]>>

Quote(s) == Concat([i \in 1..Len(s) |-> QuoteChar(s[i])])

\* the characters of the model in ASCII order
AsciiOrder ==
    <<" ", "%", "&", "+", ",", "/">> \o DigitChars \o <<"=",
      "A", "B", "C", "D", "E", "F", "G", "H", "I", "J", "K", "L", "M",
      "N", "O", "P", "Q", "R", "S", "T", "U", "V", "W", "X", "Y", "Z", "_",
      "a", "b", "c", "d", "e", "f", "g", "h", "i", "j", "k", "l", "m",
      "n", "o", "p", "q", "r", "s", "t", "u", "v", "w", "x", "y", "z">>
AsciiRank(c) == CHOOSE i \in 1..Len(AsciiOrder) : AsciiOrder[i] = c

\* a < b for two str
RECURSIVE StrLess(_, _)
StrLess(a, b) ==
    IF b = <<>> THEN FALSE
    ELSE IF a = <<>> THEN TRUE
    ELSE IF Head(a) # Head(b) THEN AsciiRank(Head(a)) < AsciiRank(Head(b))
    ELSE StrLess(Tail(a), Tail(b))

\* sorted(query), for a dict's items (the keys differ)
RECURSIVE SortedItems(_)
SortedItems(query) ==
    IF query = <<>> THEN <<>>
    ELSE LET m == CHOOSE i \in 1..Len(query) :
                      \A j \in 1..Len(query) : j # i => StrLess(query[i][1], query[j][1])
         IN  <<query[m]>> \o SortedItems(SelectSeq(query, LAMBDA kv : kv # query[m]))

UrlencodeSorted(query) ==
    LET items == SortedItems(query)
    IN  Join(<<"&">>, [i \in 1..Len(items) |->
            Quote(items[i][1]) \o <<"=">> \o Quote(items[i][2])])

\* urlencode(query, quote_via=quote): 'k=v' of every item, joined by '&'
Urlencode(query) == Join(<<"&">>, [i \in 1..Len(query) |->
                        Quote(query[i][1]) \o <<"=">> \o Quote(query[i][2])])

-----------------------------------------------------------------------------
(* The signer. *)

kTimestamp == <<"t", "i", "m", "e", "s", "t", "a", "m", "p">>
kSignature == <<"s", "i", "g", "n", "a", "t", "u", "r", "e">>
kAsset == <<"a", "s", "s", "e", "t">>

\* sign_params=None, and a dict that is falsy
NoParams == <<>>

\* hmac.new(key, msg, sha256).hexdigest()
Hmac(key, msg) == [key |-> key, msg |-> msg]

ToSignTrailingAmp(req_time_, sign_params) ==
    Urlencode(sign_params) \o <<"&">> \o kTimestamp \o <<"=">> \o IntStr(req_time_)

\* the string _sign_v3 signs (to_sign)
ToSign(req_time_, sign_params) ==
    IF sign_params # NoParams
    THEN Urlencode(sign_params) \o <<"&">> \o kTimestamp \o <<"=">> \o IntStr(req_time_)
    ELSE kTimestamp \o <<"=">> \o IntStr(req_time_)

sign_v3(secret_key, req_time_, sign_params) ==
    Hmac(secret_key, ToSign(req_time_, sign_params))

-----------------------------------------------------------------------------
(* Configuration, and the values the exchange and the bot can answer with. *)

OK == 200                       \* httpx.codes.OK
ErrorStatuses == {400, 500}     \* any status other than OK
Statuses == {OK} \cup ErrorStatuses

USDC == <<"U", "S", "D", "C">>
usdc == <<"u", "s", "d", "c">>
DOGE == <<"D", "O", "G", "E">>
SHIB == <<"S", "H", "I", "B">>

\* server times: 1700000000000 + k
ServerTimes == {<<1, 700000, k>> : k \in 0..MaxTick}

\* class Asset
Asset == [asset : {USDC, usdc, DOGE}, convert_mx : {"0.01"}]

DustLists == UNION {[1..n -> Asset] : n \in 0..MaxDust}

\* a response body: its text, and whether response.json() decodes it
JsonBody(v) == [json |-> TRUE, val |-> v]
HtmlBody == [json |-> FALSE, val |-> [html |-> "Bad Gateway"]]
ErrorJson == [code |-> 700002, msg |-> "rejected"]
ConvertResults == {[totalConvert |-> "0.1"], [totalConvert |-> "0.2"]}

\* what a network call ends with: an exception of the transport, or a response
TransportFailure == [kind |-> "transport", status |-> 0, body |-> HtmlBody]
Response(s, b) == [kind |-> "response", status |-> s, body |-> b]

None == [none |-> TRUE]
NoTime == <<>>

-----------------------------------------------------------------------------
(* Exceptions and the log. *)

ApiErrorStatusOnly(response) ==
    [type |-> "Exception", tag |-> "Error", args |-> <<response.status>>]

\* Exception(f"Error: {response.status_code}, {response.text}")
ApiError(response) ==
    [type |-> "Exception", tag |-> "Error", args |-> <<response.status, response.body>>]
\* raised by httpx while a request is performed
TransportError == [type |-> "TransportError", tag |-> "transport", args |-> <<>>]
\* raised by response.json() on a body that is not JSON
JSONDecodeError == [type |-> "JSONDecodeError", tag |-> "decode", args |-> <<>>]
NoException == [type |-> "none", tag |-> "none", args |-> <<>>]

\* the classes derived from Exception
ExceptionClasses == {"Exception", "TransportError", "JSONDecodeError"}

CatchesApiErrorOnly(e) == e.type = "Exception"

\* run: except Exception as e
Catches(e) == e.type \in ExceptionClasses

LogLine(level, tag, args) == [level |-> level, tag |-> tag, args |-> args]

\* logger.error(f"{str(e)}")
ErrorLine(e) == LogLine("error", e.tag, e.args)

ExceptSwallow(lg, e) == pc' = "Done" /\ log' = lg

ExceptRetry(lg, e) ==
    IF e.type = "TransportError" /\ pc \in {"list_request", "convert_request"}
    THEN pc' = pc /\ log' = Append(lg, LogLine("warning", "retry", <<>>))
    ELSE pc' = "Errored" /\ log' = Append(lg, ErrorLine(e))

\* a handler that reports every error to the chat before the run ends
ExceptThenNotify(lg, e) ==
    IF pc = "notify"
    THEN pc' = "Errored" /\ log' = Append(lg, ErrorLine(e))
    ELSE pc' = "notify" /\ log' = Append(lg, ErrorLine(e))

\* where run ends when e is raised in its try block, with lg logged before
Except(lg, e) ==
    IF Catches(e)
    THEN pc' = "Errored" /\ log' = Append(lg, ErrorLine(e))
    ELSE pc' = "Crashed" /\ log' = lg

-----------------------------------------------------------------------------
(* The client. *)

\* a client whose ignore list is shared by all instances and grows with use
MEXCApiClientStateful(api_key, secret_key) ==
    [api_key |-> api_key, secret_key |-> secret_key, base_url |-> "mexc_host",
     ignore_assets |-> IF runs = 0 THEN <<USDC>> ELSE <<USDC, DOGE>>]

\* MEXCApiClient.__init__
MEXCApiClient(api_key, secret_key) ==
    [api_key |-> api_key, secret_key |-> secret_key, base_url |-> "mexc_host",
     ignore_assets |-> <<USDC>>]

Unbound == [api_key |-> "", secret_key |-> "", base_url |-> "", ignore_assets |-> <<>>]

\* x in l, for a list l
InList(x, l) == \E i \in 1..Len(l) : l[i] = x

UpperChar(c) == CASE c = "u" -> "U" [] c = "s" -> "S" [] c = "d" -> "D"
                  [] c = "c" -> "C" [] OTHER -> c
Upper(s) == [i \in 1..Len(s) |-> UpperChar(s[i])]

ConvertAssetsIgnoringCase(dust, ignore) ==
    LET kept == SelectSeq(dust, LAMBDA item : ~InList(Upper(item.asset), ignore))
    IN  [i \in 1..Len(kept) |-> kept[i].asset]

\* run: [item["asset"] for item in dust_assets if item["asset"] not in self.ignore_assets]
ConvertAssets(dust, ignore) ==
    LET kept == SelectSeq(dust, LAMBDA item : ~InList(item.asset, ignore))
    IN  [i \in 1..Len(kept) |-> kept[i].asset]

NothingToConvertIsNone(dust) == FALSE

NothingToConvertAfterFilter(dust) ==
    SelectSeq(dust, LAMBDA item : item.asset \notin {USDC}) = <<>>

\* run: if not dust_assets
NothingToConvert(dust) == dust = <<>>

\* dust_transfer: params = {"asset": ",".join(assets)}
TransferParams(assets) == <<<<kAsset, Join(<<",">>, assets)>>>>

ServerTimeLocalClock(json) == <<1, 699999, 999999>>

\* _get_server_time: response.json()["serverTime"]
ServerTime(json) == json.serverTime

\* a sign_request that stores the timestamp before it signs
SignedParamsTimestampFirst(client, p, t) ==
    LET given == IF p # NoParams THEN p ELSE <<>>
    IN  given \o <<<<kTimestamp, t>>,
                   <<kSignature,
                     sign_v3(client.secret_key, t, given \o <<<<kTimestamp, IntStr(t)>>>>)>>>>

\* sign_request: the mapping sent, after lines 63-68
SignedParams(client, p, t) ==
    (IF p # NoParams THEN p ELSE <<>>)
        \o <<<<kSignature, sign_v3(client.secret_key, t, p)>>, <<kTimestamp, t>>>>

\* send_telegram_message: the JSON posted to the bot
TelegramJson(result_) ==
    [chat_id |-> "telegram_chat_id", text |-> [json_dumps |-> result_],
     parse_mode |-> "Markdown"]

Call(ep, method, sent, body, outcome) ==
    [ep |-> ep, method |-> method, params |-> sent, payload |-> body, result |-> outcome]

-----------------------------------------------------------------------------
(* The scheduler loop and job. *)

\* schedule.run_pending() finds job due; job builds the client and run starts:
\* get_dust_assets calls sign_request, which awaits _get_server_time
\* a scheduler that starts the job of a tick in a thread of its own
JobOverlapping ==
    /\ runs < MaxRuns
    /\ runs' = runs + 1
    /\ mexc' = MEXCApiClient("api_key", "s3cr3t")
    /\ params' = NoParams
    /\ req_time' = NoTime
    /\ dust_assets' = <<>>
    /\ convert_assets' = <<>>
    /\ payload' = None
    /\ pending' = NoException
    /\ result' = None
    /\ calls' = <<>>
    /\ log' = <<LogLine("info", "job started", <<>>)>>
    /\ pc' = "list_time"
    /\ UNCHANGED <<history, sign_args, sign_ret>>

Job ==
    /\ pc = "idle"
    /\ runs < MaxRuns
    /\ runs' = runs + 1
    /\ mexc' = MEXCApiClient("api_key", "s3cr3t")
    /\ params' = NoParams
    /\ req_time' = NoTime
    /\ dust_assets' = <<>>
    /\ convert_assets' = <<>>
    /\ payload' = None
    /\ pending' = NoException
    /\ result' = None
    /\ calls' = <<>>
    /\ log' = <<LogLine("info", "job started", <<>>)>>
    /\ pc' = "list_time"
    /\ UNCHANGED <<history, sign_args, sign_ret>>

\* run has returned: job logs and returns to the loop
JobReturn ==
    /\ pc \in {"Done", "Errored"}
    /\ log' = Append(log, LogLine("info", "job finished", <<>>))
    /\ history' = Append(history, pc)
    /\ pc' = "idle"
    /\ UNCHANGED <<runs, mexc, params, req_time, dust_assets, convert_assets,
                   payload, pending, result, calls, sign_args, sign_ret>>

-----------------------------------------------------------------------------
(* sign_request, first half: _get_server_time. *)

GetServerTimeReturnsFallback(o) ==
    /\ calls' = Append(calls, Call("time", "get", NoParams, None, o))
    /\ IF o.kind = "transport"
       THEN Except(log, TransportError) /\ UNCHANGED req_time
       ELSE /\ req_time' = IF o.status = OK /\ o.body.json
                           THEN ServerTime(o.body.val) ELSE <<1, 699999, 999999>>
            /\ pc' = IF pc = "list_time" THEN "list_request" ELSE "convert_request"
            /\ log' = log
    /\ UNCHANGED <<runs, mexc, params, dust_assets, convert_assets, payload,
                   pending, result, history, sign_args, sign_ret>>

GetServerTimeReturns(o) ==
    /\ calls' = Append(calls, Call("time", "get", NoParams, None, o))
    /\ IF o.kind = "transport"
       THEN Except(log, TransportError) /\ UNCHANGED req_time
       ELSE IF o.status # OK
       THEN Except(log, ApiError(o)) /\ UNCHANGED req_time
       ELSE IF ~o.body.json
       THEN Except(log, JSONDecodeError) /\ UNCHANGED req_time
       ELSE /\ req_time' = ServerTime(o.body.val)
            /\ pc' = IF pc = "list_time" THEN "list_request" ELSE "convert_request"
            /\ log' = log
    /\ UNCHANGED <<runs, mexc, params, dust_assets, convert_assets, payload,
                   pending, result, history, sign_args, sign_ret>>

GetServerTime ==
    /\ pc \in {"list_time", "convert_time"}
    /\ \/ GetServerTimeReturns(TransportFailure)
       \/ \E t \in ServerTimes :
              GetServerTimeReturns(Response(OK, JsonBody([serverTime |-> t])))
       \/ \E s \in Statuses : GetServerTimeReturns(Response(s, HtmlBody))
       \/ \E s \in ErrorStatuses : GetServerTimeReturns(Response(s, JsonBody(ErrorJson)))

-----------------------------------------------------------------------------
(* get_dust_assets: the signed request, then run up to dust_transfer's     *)
(* sign_request.                                                           *)

GetDustAssetsReturns(o) ==
    LET sent == SignedParams(mexc, params, req_time)
        fetched == o.body.val
        kept == ConvertAssets(fetched, mexc.ignore_assets)
        seen == Append(log, LogLine("info", "dust assets", <<fetched>>))
    IN
    /\ calls' = Append(calls, Call("list", "get", sent, None, o))
    /\ IF o.kind = "transport"
       THEN Except(log, TransportError)
            /\ params' = sent
            /\ UNCHANGED <<dust_assets, convert_assets>>
       ELSE IF o.status # OK
       THEN Except(log, ApiError(o))
            /\ params' = sent
            /\ UNCHANGED <<dust_assets, convert_assets>>
       ELSE IF ~o.body.json
       THEN Except(log, JSONDecodeError)
            /\ params' = sent
            /\ UNCHANGED <<dust_assets, convert_assets>>
       ELSE /\ dust_assets' = fetched
            /\ convert_assets' = kept
            /\ IF NothingToConvert(fetched)
               THEN /\ log' = Append(seen, LogLine("info", "nothing to convert", <<>>))
                    /\ pc' = "Done"
                    /\ params' = sent
               ELSE /\ log' = Append(seen, LogLine("info", "converting", <<kept>>))
                    /\ params' = TransferParams(kept)
                    /\ pc' = "convert_time"
    /\ UNCHANGED <<runs, mexc, req_time, payload, pending, result, history, sign_args, sign_ret>>

GetDustAssets ==
    /\ pc = "list_request"
    /\ \/ GetDustAssetsReturns(TransportFailure)
       \/ \E d \in DustLists : GetDustAssetsReturns(Response(OK, JsonBody(d)))
       \/ \E s \in Statuses : GetDustAssetsReturns(Response(s, HtmlBody))
       \/ \E s \in ErrorStatuses : GetDustAssetsReturns(Response(s, JsonBody(ErrorJson)))

-----------------------------------------------------------------------------
(* dust_transfer: the signed request, up to send_telegram_message's post.  *)

DustTransferReturns(o) ==
    LET sent == SignedParams(mexc, params, req_time)
    IN
    /\ calls' = Append(calls, Call("convert", "post", sent, None, o))
    /\ params' = sent
    /\ IF o.kind = "transport"
       THEN Except(log, TransportError) /\ UNCHANGED <<payload, pending>>
       ELSE IF ~o.body.json
       THEN Except(log, JSONDecodeError) /\ UNCHANGED <<payload, pending>>
       ELSE /\ payload' = o.body.val
            /\ pending' = IF o.status = OK THEN NoException ELSE ApiError(o)
            /\ pc' = "notify"
            /\ log' = log
    /\ UNCHANGED <<runs, mexc, req_time, dust_assets, convert_assets, result,
                   history, sign_args, sign_ret>>

DustTransfer ==
    /\ pc = "convert_request"
    /\ \/ DustTransferReturns(TransportFailure)
       \/ \E r \in ConvertResults : DustTransferReturns(Response(OK, JsonBody(r)))
       \/ \E s \in Statuses : DustTransferReturns(Response(s, HtmlBody))
       \/ \E s \in ErrorStatuses : DustTransferReturns(Response(s, JsonBody(ErrorJson)))

-----------------------------------------------------------------------------
(* send_telegram_message, then the rest of dust_transfer and of run.       *)

\* dust_transfer after the notification returned, with lg logged so far
AfterNotify(lg) ==
    IF pending = NoException
    THEN /\ result' = payload
         /\ log' = lg \o <<LogLine("info", "result:", <<>>),
                            LogLine("info", "result", <<payload>>)>>
         /\ pc' = "Done"
    ELSE Except(lg, pending) /\ UNCHANGED result

\* a notifier that waits for the delivery to be confirmed
SendTelegramMessageReturnsAwaitingDelivery(o) ==
    /\ calls' = Append(calls, Call("telegram", "post", NoParams, TelegramJson(payload), o))
    /\ IF o.kind # "transport" /\ o.status = OK
       THEN AfterNotify(Append(log, LogLine("info", "Telegram message sent!", <<>>)))
       ELSE pc' = "awaiting_delivery" /\ UNCHANGED <<log, result>>
    /\ UNCHANGED <<runs, mexc, params, req_time, dust_assets, convert_assets,
                   payload, pending, history, sign_args, sign_ret>>

SendTelegramMessageReturns(o) ==
    /\ calls' = Append(calls, Call("telegram", "post", NoParams, TelegramJson(payload), o))
    /\ IF o.kind = "transport"
       THEN Except(log, TransportError) /\ UNCHANGED result
       ELSE IF o.status = OK
       THEN AfterNotify(Append(log, LogLine("info", "Telegram message sent!", <<>>)))
       ELSE AfterNotify(Append(log, LogLine("error", "Error", <<o.status, o.body>>)))
    /\ UNCHANGED <<runs, mexc, params, req_time, dust_assets, convert_assets,
                   payload, pending, history, sign_args, sign_ret>>

SendTelegramMessage ==
    /\ pc = "notify"
    /\ \/ SendTelegramMessageReturns(TransportFailure)
       \/ SendTelegramMessageReturns(Response(OK, JsonBody([ok |-> TRUE])))
       \/ \E s \in ErrorStatuses :
              SendTelegramMessageReturns(Response(s, JsonBody([ok |-> FALSE])))

-----------------------------------------------------------------------------
(* The program. *)

InitRun ==
    /\ pc = "idle"
    /\ runs = 0
    /\ mexc = Unbound
    /\ params = NoParams
    /\ req_time = NoTime
    /\ dust_assets = <<>>
    /\ convert_assets = <<>>
    /\ payload = None
    /\ pending = NoException
    /\ result = None
    /\ calls = <<>>
    /\ log = <<>>
    /\ history = <<>>

NoCall == [req_time |-> <<0>>, sign_params |-> NoParams]
NoRet == [to_sign |-> <<>>, sign |-> Hmac("", <<>>)]

Init == InitRun /\ sign_args = NoCall /\ sign_ret = NoRet

Next == Job \/ GetServerTime \/ GetDustAssets \/ DustTransfer
            \/ SendTelegramMessage \/ JobReturn

Spec == Init /\ [][Next]_vars

\* every awaited network call returns: a response or an error
SpecLive ==
    /\ Spec
    /\ WF_vars(GetServerTime)
    /\ WF_vars(GetDustAssets)
    /\ WF_vars(DustTransfer)
    /\ WF_vars(SendTelegramMessage)

-----------------------------------------------------------------------------
(* _sign_v3 called directly, on every input within the bounds. *)

SignChars == {"D", ",", " ", "&"}
SignValues == UNION {[1..n -> SignChars] : n \in 0..MaxValLen} \cup {DOGE \o <<",">> \o SHIB}
SignKeys == {kAsset, <<"k", "&">>}
SignParams ==
    {NoParams}
        \cup {<<<<k, v>>>> : k \in SignKeys, v \in SignValues}
        \cup {<<<<q[1], v1>>, <<q[2], v2>>>> :
                  q \in {r \in SignKeys \X SignKeys : r[1] # r[2]},
                  v1 \in SignValues, v2 \in SignValues}
SignTimes == ServerTimes \cup {<<42>>, <<1, 5>>}

InitSign ==
    /\ InitRun
    /\ sign_args \in [req_time : SignTimes, sign_params : SignParams]
    /\ sign_ret = NoRet

SignV3 ==
    /\ sign_ret = NoRet
    /\ sign_ret' = [to_sign |-> ToSign(sign_args.req_time, sign_args.sign_params),
                    sign |-> sign_v3("s3cr3t", sign_args.req_time, sign_args.sign_params)]
    /\ UNCHANGED <<runVars, sign_args>>

NextSign == SignV3

SpecSign == InitSign /\ [][NextSign]_vars

-----------------------------------------------------------------------------
(* Vocabulary of the properties. *)

CallsTo(ep) == {i \in 1..Len(calls) : calls[i].ep = ep}

\* the call was answered with status OK and a body that decodes
Succeeded(c) == c.result.kind = "response" /\ c.result.status = OK /\ c.result.body.json

\* the call was answered with another status
Refused(c) == c.result.kind = "response" /\ c.result.status # OK

Broke(c) == c.result.kind = "transport"

RunEnded == pc \in {"Done", "Errored", "Crashed"}

Logged(level, tag, args) ==
    \E i \in 1..Len(log) : log[i].level = level /\ log[i].tag = tag /\ log[i].args = args

HasParam(ps, key) == \E i \in 1..Len(ps) : ps[i][1] = key
ParamValue(ps, key) == ps[CHOOSE i \in 1..Len(ps) : ps[i][1] = key][2]

SymbolsOf(fetched) == [i \in 1..Len(fetched) |-> fetched[i].asset]

\* the symbols of fetched outside the set ignored, in order (reference)
RECURSIVE RefFilter(_, _)
RefFilter(fetched, ignored) ==
    IF fetched = <<>> THEN <<>>
    ELSE (IF Head(fetched).asset \in ignored THEN <<>> ELSE <<Head(fetched).asset>>)
             \o RefFilter(Tail(fetched), ignored)

\* the pieces of s between commas; no piece for the empty string
RECURSIVE SplitComma(_)
SplitComma(s) ==
    IF s = <<>> THEN <<>>
    ELSE IF \A i \in 1..Len(s) : s[i] # ","
    THEN <<s>>
    ELSE LET k == CHOOSE i \in 1..Len(s) : s[i] = "," /\ \A j \in 1..(i - 1) : s[j] # ","
         IN  <<SubSeq(s, 1, k - 1)>> \o SplitComma(SubSeq(s, k + 1, Len(s)))

DigitValue(c) == CHOOSE d \in 0..9 : DigitChars[d + 1] = c

RECURSIVE NumberOf(_)
NumberOf(ds) == IF ds = <<>> THEN 0
                ELSE 10 * NumberOf(SubSeq(ds, 1, Len(ds) - 1)) + DigitValue(ds[Len(ds)])

\* the int a decimal numeral denotes, as limbs
RECURSIVE ParseLimbs(_)
ParseLimbs(ds) ==
    IF Len(ds) <= 6 THEN <<NumberOf(ds)>>
    ELSE ParseLimbs(SubSeq(ds, 1, Len(ds) - 6)) \o <<NumberOf(SubSeq(ds, Len(ds) - 5, Len(ds)))>>

\* ds is the decimal numeral of n: digits only, no leading zero, value n
IsDecimalOf(ds, n) ==
    /\ ds # <<>>
    /\ \A i \in 1..Len(ds) : \E d \in 1..10 : DigitChars[d] = ds[i]
    /\ (Len(ds) > 1 => ds[1] # "0")
    /\ ParseLimbs(ds) = n

\* percent-encoding of the reserved characters the inputs use (RFC 3986)
RefQuoteChar(c) == CASE c = "," -> <<"%", "2", "C">>
                     [] c = "&" -> <<"%", "2", "6">>
                     [] c = " " -> <<"%", "2", "0">>
                     [] c = "=" -> <<"%", "3", "D">>
                     [] OTHER -> <<c>>

RECURSIVE RefQuote(_)
RefQuote(s) == IF s = <<>> THEN <<>> ELSE RefQuoteChar(Head(s)) \o RefQuote(Tail(s))

\* key=value of every pair, each followed by '&'
RECURSIVE RefPairs(_)
RefPairs(ps) ==
    IF ps = <<>> THEN <<>>
    ELSE RefQuote(Head(ps)[1]) \o <<"=">> \o RefQuote(Head(ps)[2]) \o <<"&">>
             \o RefPairs(Tail(ps))

\* msg is prefix followed by 'timestamp=' and the decimal numeral of t
EndsWithTimestamp(msg, prefix, t) ==
    LET head == prefix \o kTimestamp \o <<"=">>
    IN  /\ Len(msg) > Len(head)
        /\ SubSeq(msg, 1, Len(head)) = head
        /\ IsDecimalOf(SubSeq(msg, Len(head) + 1, Len(msg)), t)

-----------------------------------------------------------------------------
\* the dust-list call was answered with an empty list
EmptyFetch ==
    \E i \in CallsTo("list") : Succeeded(calls[i]) /\ calls[i].result.body.val = <<>>

(* C1.  If the dust list comes back empty, neither the conversion call nor *)
(* the notification is ever made in that run, and the run ends in Done.    *)

C1_EmptyDustSkipsConversion ==
    EmptyFetch =>
        /\ CallsTo("convert") = {}
        /\ CallsTo("telegram") = {}
        /\ \/ pc = "Done"
           \/ pc = "idle" /\ history[Len(history)] = "Done"

C1_Witness == EmptyFetch /\ pc = "Done" /\ Len(calls) = 2

(* C2.  The conversion call carries exactly the fetched symbols that are   *)
(* not in the ignore set (exact, case-sensitive match), in fetched order;  *)
(* for the fetched list [USDC, DOGE] it carries exactly [DOGE].            *)

C2_ConversionCarriesFiltered ==
    \A i \in CallsTo("convert") :
        \E j \in CallsTo("list") :
            /\ j < i
            /\ Succeeded(calls[j])
            /\ LET fetched == calls[j].result.body.val
                   ignored == {mexc.ignore_assets[k] : k \in 1..Len(mexc.ignore_assets)}
               IN  /\ fetched # <<>>
                   /\ ignored = {USDC}
                   /\ HasParam(calls[i].params, kAsset)
                   /\ SplitComma(ParamValue(calls[i].params, kAsset))
                          = RefFilter(fetched, ignored)
                   /\ (SymbolsOf(fetched) = <<USDC, DOGE>>
                          => ParamValue(calls[i].params, kAsset) = DOGE)

C2_Witness ==
    \E i \in CallsTo("convert") :
        /\ SymbolsOf(dust_assets) = <<USDC, DOGE>>
        /\ ParamValue(calls[i].params, kAsset) = DOGE

(* C3.  As claimed: once a run has ended, a non-success status from the    *)
(* conversion endpoint (with a JSON body) has been logged as an error with *)
(* its status and body, a notification with the decoded body has been      *)
(* attempted, and the run is in Errored.                                   *)

C3_RefusedConversionReported ==
    pc \in {"Done", "Errored"} =>
        \A i \in CallsTo("convert") :
            (Refused(calls[i]) /\ calls[i].result.body.json) =>
                /\ Logged("error", "Error", <<calls[i].result.status, calls[i].result.body>>)
                /\ \E k \in CallsTo("telegram") :
                       calls[k].payload = TelegramJson(calls[i].result.body.val)
                /\ pc = "Errored"

(* C4.  As claimed: once a run has ended, a conversion that succeeded has  *)
(* left the run in Done with the conversion result returned and logged,    *)
(* whatever the notification's outcome.                                    *)

C4_NotifierNeverFlipsResult ==
    pc \in {"Done", "Errored"} =>
        \A i \in CallsTo("convert") :
            Succeeded(calls[i]) =>
                /\ pc = "Done"
                /\ result = calls[i].result.body.val
                /\ Logged("info", "result", <<calls[i].result.body.val>>)

(* C5.  As claimed: once a run has ended, a conversion call that failed,   *)
(* be it by a transport error or by a non-success status (with a JSON      *)
(* body), has been followed by a notification attempt, an error is logged  *)
(* and the run is in Errored.                                              *)

C5_EveryConversionFailureNotified ==
    pc \in {"Done", "Errored"} =>
        \A i \in CallsTo("convert") :
            (Broke(calls[i]) \/ (Refused(calls[i]) /\ calls[i].result.body.json)) =>
                /\ \E k \in CallsTo("telegram") : k > i
                /\ \E n \in 1..Len(log) : log[n].level = "error"
                /\ pc = "Errored"

\* the time fetch made for the conversion call
ConvertTimeCalls == {i \in CallsTo("time") : \E j \in CallsTo("list") : j < i}

\* the conversion step failed: its time fetch, or the conversion call itself
ConversionStepFailed ==
    \/ \E i \in ConvertTimeCalls : ~Succeeded(calls[i])
    \/ \E i \in CallsTo("convert") : ~Succeeded(calls[i])

(* C5, amended.  Every failure of the conversion step (its time fetch, a   *)
(* transport error, a non-success status or an undecodable body of the     *)
(* conversion call) ends the run in Errored with the error logged last.    *)
(* A notification is attempted only after the conversion endpoint          *)
(* answered: with the decoded body when it answered a non-success status   *)
(* and a JSON body, and never after a transport error of the conversion    *)
(* call or a failed time fetch.                                            *)

C5_ConversionFailureHandling ==
    /\ (RunEnded /\ ConversionStepFailed) =>
           /\ pc = "Errored"
           /\ log[Len(log)].level = "error"
    /\ \A k \in CallsTo("telegram") :
           \E i \in CallsTo("convert") : i < k /\ ~Broke(calls[i]) /\ calls[i].result.body.json
    /\ \A i \in CallsTo("convert") :
           (Refused(calls[i]) /\ calls[i].result.body.json) =>
               \/ pc = "notify"
               \/ \E k \in CallsTo("telegram") :
                      k > i /\ calls[k].payload = TelegramJson(calls[i].result.body.val)

C5_Witness ==
    /\ pc = "Errored"
    /\ \E i \in CallsTo("convert") : Broke(calls[i])
    /\ CallsTo("telegram") = {}

(* C6.  As claimed: once a run has ended, a conversion answered with       *)
(* success has had its decoded body passed to the notifier, returned by    *)
(* dust_transfer and logged by run, the same value each time.              *)

C6_ResultForwardedUnmodified ==
    pc \in {"Done", "Errored"} =>
        \A i \in CallsTo("convert") :
            Succeeded(calls[i]) =>
                /\ \E k \in CallsTo("telegram") :
                       calls[k].payload = TelegramJson(calls[i].result.body.val)
                /\ result = calls[i].result.body.val
                /\ Logged("info", "result", <<result>>)

SignedCalls == CallsTo("list") \cup CallsTo("convert")

(* C7.  Every signed request directly follows its own successful call of   *)
(* the time endpoint; its timestamp parameter is the value that call       *)
(* returned, and the signed string ends with timestamp=<that value>.       *)

C7_FreshServerTimestamp ==
    \A i \in SignedCalls :
        /\ i > 1
        /\ calls[i - 1].ep = "time"
        /\ Succeeded(calls[i - 1])
        /\ \A j \in SignedCalls : j < i => j < i - 1
        /\ LET t == calls[i - 1].result.body.val.serverTime
               sent == calls[i].params
               msg == ParamValue(sent, kSignature).msg
               own == SelectSeq(sent, LAMBDA kv : kv[1] \notin {kSignature, kTimestamp})
           IN  /\ HasParam(sent, kTimestamp)
               /\ ParamValue(sent, kTimestamp) = t
               /\ EndsWithTimestamp(msg, RefPairs(own), t)

C7_Witness ==
    /\ CallsTo("convert") # {}
    /\ Len(calls) >= 4
    /\ calls[1].ep = "time" /\ calls[3].ep = "time"
    /\ calls[1].result.body.val.serverTime # calls[3].result.body.val.serverTime
    /\ ParamValue(calls[4].params, kTimestamp) = calls[3].result.body.val.serverTime

(* C8.  No failure escapes a run: no exception leaves run, job returns,    *)
(* the loop can start the next run, and a run starts from the state of a   *)
(* freshly built client whatever the earlier runs did.                     *)

C8_FailuresContained ==
    /\ pc # "Crashed"
    /\ pc \in {"Done", "Errored"} => ENABLED JobReturn
    /\ (pc = "idle" /\ runs < MaxRuns) => ENABLED Job
    /\ pc = "list_time" =>
           /\ mexc = MEXCApiClient("api_key", "s3cr3t")
           /\ params = NoParams /\ req_time = NoTime
           /\ dust_assets = <<>> /\ convert_assets = <<>>
           /\ payload = None /\ pending = NoException /\ result = None
           /\ calls = <<>>

C8_Witness ==
    /\ pc = "list_time"
    /\ history # <<>>
    /\ history[Len(history)] = "Errored"

(* C9.  No retry: in a run the dust-list endpoint and the conversion       *)
(* endpoint are each requested at most once, and a failed request is       *)
(* followed by no further request to the exchange in that run, which ends  *)
(* in Errored.                                                             *)

C9_NoRetry ==
    /\ Cardinality(CallsTo("list")) <= 1
    /\ Cardinality(CallsTo("convert")) <= 1
    /\ \A i \in 1..Len(calls) :
           (calls[i].ep # "telegram" /\ ~Succeeded(calls[i])) =>
               /\ \A j \in (i + 1)..Len(calls) : calls[j].ep = "telegram"
               /\ \/ pc = "Errored"
                  \/ pc = "idle" /\ history[Len(history)] = "Errored"
                  \/ pc = "notify" /\ calls[i].ep = "convert" /\ Refused(calls[i])

C9_Witness ==
    /\ pc = "Errored"
    /\ \E i \in CallsTo("convert") : Broke(calls[i])
    /\ Cardinality(CallsTo("list")) = 1

-----------------------------------------------------------------------------
GoldenParams == <<<<kAsset, DOGE \o <<",">> \o SHIB>>>>
GoldenTime == <<1, 700000, 0>>
GoldenDigits == <<"1", "7", "0", "0", "0", "0", "0", "0", "0", "0", "0", "0", "0">>
GoldenSigned ==
    <<"a", "s", "s", "e", "t", "=", "D", "O", "G", "E", "%", "2", "C", "S", "H", "I", "B",
      "&", "t", "i", "m", "e", "s", "t", "a", "m", "p", "=">> \o GoldenDigits

(* C10.  The string _sign_v3 signs is timestamp=<T> alone, with no '&',    *)
(* when there are no parameters; otherwise the percent-encoded key=value   *)
(* pairs in insertion order joined by '&', then &timestamp=<T>.  For       *)
(* {"asset": "DOGE,SHIB"} and T = 1700000000000 it is                      *)
(* asset=DOGE%2CSHIB&timestamp=1700000000000.                              *)

C10_SignedString ==
    sign_ret # NoRet =>
        LET t == sign_args.req_time
            ps == sign_args.sign_params
            msg == sign_ret.to_sign
        IN  /\ EndsWithTimestamp(msg, RefPairs(ps), t)
            /\ ps = NoParams => msg[1] = "t" /\ \A i \in 1..Len(msg) : msg[i] # "&"
            /\ (ps = NoParams /\ t = GoldenTime) => msg = kTimestamp \o <<"=">> \o GoldenDigits
            /\ (ps = GoldenParams /\ t = GoldenTime) => msg = GoldenSigned
            /\ sign_ret.sign = Hmac("s3cr3t", msg)

C10_Witness ==
    /\ sign_args = [req_time |-> GoldenTime, sign_params |-> GoldenParams]
    /\ sign_ret # NoRet
    /\ sign_ret.to_sign = GoldenSigned

-----------------------------------------------------------------------------
\* the mappings holding the pairs of ps in another insertion order
Reorderings(ps) ==
    {[i \in 1..Len(ps) |-> ps[f[i]]] :
         f \in {g \in [1..Len(ps) -> 1..Len(ps)] :
                    /\ \A i, j \in 1..Len(ps) : i # j => g[i] # g[j]
                    /\ \E i \in 1..Len(ps) : g[i] # i}}

(* C11.  Signing is order-sensitive: for a mapping of two or more keys,    *)
(* the same pairs inserted in any other order give another signed string   *)
(* and another signature, whatever the timestamp.                          *)

C11_OrderSensitive ==
    (sign_ret # NoRet /\ Len(sign_args.sign_params) >= 2) =>
        \A qs \in Reorderings(sign_args.sign_params) :
            /\ ToSign(sign_args.req_time, qs) # sign_ret.to_sign
            /\ sign_v3("s3cr3t", sign_args.req_time, qs) # sign_ret.sign

C11_Witness ==
    /\ sign_ret # NoRet
    /\ Len(sign_args.sign_params) = 2
    /\ sign_args.sign_params[1][1] = <<"k", "&">>
    /\ sign_args.sign_params[1][2] = sign_args.sign_params[2][2]
    /\ Reorderings(sign_args.sign_params) # {}

-----------------------------------------------------------------------------
\* the run ended in Errored
EndedErrored ==
    \/ pc = "Errored"
    \/ pc = "idle" /\ history # <<>> /\ history[Len(history)] = "Errored"

(* C12.  A non-success status from the time endpoint raises an error that  *)
(* carries the status and the body, and the signed request that needed the *)
(* timestamp is not sent: every request to the dust-list or conversion     *)
(* endpoint follows a time call that succeeded and carries a timestamp.    *)

C12_TimeRefusalStopsRequest ==
    /\ \A i \in CallsTo("time") :
           Refused(calls[i]) =>
               /\ i = Len(calls)
               /\ Logged("error", "Error", <<calls[i].result.status, calls[i].result.body>>)
               /\ EndedErrored
    /\ \A i \in CallsTo("list") \cup CallsTo("convert") :
           \E j \in CallsTo("time") :
               /\ j = i - 1
               /\ ~Refused(calls[j]) /\ ~Broke(calls[j])
               /\ HasParam(calls[i].params, kTimestamp)

C12_Witness ==
    /\ Len(calls) = 3
    /\ calls[3].ep = "time" /\ Refused(calls[3])
    /\ calls[3].result.body = JsonBody(ErrorJson)
    /\ pc = "Errored"

(* C13.  A non-success status from the dust-list endpoint raises an error  *)
(* with the status and the body; no conversion call is issued in that run, *)
(* which ends in Errored with the error logged.                            *)

C13_ListRefusalEndsRun ==
    \A i \in CallsTo("list") :
        Refused(calls[i]) =>
            /\ CallsTo("convert") = {}
            /\ CallsTo("telegram") = {}
            /\ i = Len(calls)
            /\ convert_assets = <<>>
            /\ log[2] = LogLine("error", "Error", <<calls[i].result.status, calls[i].result.body>>)
            /\ EndedErrored

C13_Witness ==
    /\ Len(calls) = 2
    /\ calls[2].ep = "list" /\ Refused(calls[2])
    /\ pc = "Errored"

-----------------------------------------------------------------------------
\* the dust-list call returned a list that is not empty, all of it ignored
AllIgnoredFetch ==
    \E i \in CallsTo("list") :
        /\ Succeeded(calls[i])
        /\ calls[i].result.body.val # <<>>
        /\ \A k \in 1..Len(calls[i].result.body.val) :
               calls[i].result.body.val[k].asset = USDC

(* C14.  When the fetched dust list is not empty and all of it is ignored, *)
(* run does not stop at "nothing to convert": it goes on to the conversion *)
(* step and, once the time call for it succeeded, issues exactly one       *)
(* conversion call, whose asset parameter is the empty string and whose    *)
(* signed string is asset=&timestamp=<T>, not timestamp=<T> alone.         *)

C14_AllIgnoredStillConverts ==
    AllIgnoredFetch =>
        /\ ~Logged("info", "nothing to convert", <<>>)
        /\ Logged("info", "converting", <<<<>>>>)
        /\ Len(calls) = 2 => pc = "convert_time"
        /\ (Len(calls) >= 3 /\ Succeeded(calls[3])) =>
               \/ pc = "convert_request" /\ CallsTo("convert") = {}
               \/ Cardinality(CallsTo("convert")) = 1 /\ calls[4].ep = "convert"
        /\ \A i \in CallsTo("convert") :
               LET sent == calls[i].params
                   msg == ParamValue(sent, kSignature).msg
               IN  /\ Len(sent) = 3
                   /\ sent[1] = <<kAsset, <<>>>>
                   /\ EndsWithTimestamp(msg, <<"a", "s", "s", "e", "t", "=", "&">>,
                                        ParamValue(sent, kTimestamp))

C14_Witness ==
    /\ AllIgnoredFetch
    /\ \E i \in CallsTo("convert") : Succeeded(calls[i])
    /\ pc = "Done"

-----------------------------------------------------------------------------
\* how far a run has come
Rank(p) == CASE p = "idle" -> 0
             [] p = "list_time" -> 1
             [] p = "list_request" -> 2
             [] p = "convert_time" -> 3
             [] p = "convert_request" -> 4
             [] p = "notify" -> 5
             [] OTHER -> 6

\* the state of the workflow at p: the filtering is part of the step that fetches
WorkflowState(p) == CASE p = "idle" -> "Idle"
                      [] p \in {"list_time", "list_request"} -> "FetchingDust"
                      [] p \in {"convert_time", "convert_request"} -> "Converting"
                      [] p = "notify" -> "Notifying"
                      [] OTHER -> p

CallOrder == <<"time", "list", "time", "convert", "telegram">>

(* C15.  As claimed: Errored is entered only from Idle, FetchingDust,      *)
(* Filtering or Converting (here: even when the notification's post        *)
(* returned a response).                                                   *)

C15_ErroredOnlyBeforeNotifying ==
    [][(pc' = "Errored" /\ pc # "Errored" /\ ~Broke(calls'[Len(calls')]))
           => WorkflowState(pc) \in {"Idle", "FetchingDust", "Converting"}]_vars

\* the calls of a run are a prefix of CallOrder, the conversion call after a
\* dust list that is not empty
CallsInOrder ==
    /\ Len(calls) <= Len(CallOrder)
    /\ \A i \in 1..Len(calls) : calls[i].ep = CallOrder[i]
    /\ \A i \in CallsTo("convert") :
           Succeeded(calls[2]) /\ calls[2].result.body.val # <<>>

\* a step of a run moves forward and makes one call; ended runs make none
ForwardStep ==
    (pc' # pc \/ calls' # calls) =>
        \/ /\ pc = "idle" /\ pc' = "list_time" /\ calls' = <<>>
        \/ /\ pc \in {"Done", "Errored"} /\ pc' = "idle" /\ calls' = calls
        \/ /\ pc \notin {"idle", "Done", "Errored", "Crashed"}
           /\ Rank(pc') > Rank(pc)
           /\ pc' # "Crashed"
           /\ pc' = "Done" => pc \in {"list_request", "notify"}
           /\ Len(calls') = Len(calls) + 1
           /\ SubSeq(calls', 1, Len(calls)) = calls

(* C15, amended.  Within a run the workflow only moves forward through     *)
(* Idle, FetchingDust, Filtering, Converting, Notifying, Done; Errored is  *)
(* reachable from every state before Done, Notifying included (after the   *)
(* failure notification of a refused conversion, or when the notification  *)
(* raises); Done and Errored are left only by job returning.  The calls of *)
(* a run form a prefix of [time, dust-list, time, convert, notify], the    *)
(* conversion call is issued only after a dust-list call returned success  *)
(* with a list that is not empty, and no call is made after Done or        *)
(* Errored.                                                                *)

C15_ForwardOnly == []CallsInOrder /\ [][ForwardStep]_vars

C15_Witness ==
    /\ pc = "Errored"
    /\ Len(calls) = 5
    /\ Refused(calls[4])
    /\ ~Broke(calls[5])

-----------------------------------------------------------------------------
Terminal == {"Done", "Errored"}

(* C16.  When every network call returns, a response or an error, every   *)
(* started run reaches Done or Errored; a run that is notifying reaches    *)
(* one of them whatever the notification's outcome.                        *)

C16_RunTerminates ==
    \A n \in 1..MaxRuns :
        /\ (runs = n /\ pc = "list_time") ~> (runs = n /\ pc \in Terminal)
        /\ (runs = n /\ pc = "notify") ~> (runs = n /\ pc \in Terminal)

C16_Witness ==
    /\ pc \in Terminal
    /\ \E i \in CallsTo("telegram") : Refused(calls[i])
    /\ \E i \in CallsTo("convert") : Succeeded(calls[i])

-----------------------------------------------------------------------------
\* the runs that were started and have not returned
ActiveRuns == runs - Len(history)

(* C17.  At most one run is active: a job starts only when the loop is     *)
(* idle and every job started before it has returned from Done or          *)
(* Errored, so the calls in flight belong to one run.                      *)

C17_OneRunAtATime ==
    /\ ActiveRuns = (IF pc = "idle" THEN 0 ELSE 1)
    /\ \A n \in 1..Len(history) : history[n] \in Terminal
    /\ pc = "list_time" /\ calls = <<>> => Len(history) = runs - 1

C17_Witness ==
    /\ runs = 2
    /\ Len(history) = 1
    /\ pc = "convert_request"

-----------------------------------------------------------------------------
\* the pieces of s between occurrences of sep
RECURSIVE SplitOn(_, _)
SplitOn(s, sep) ==
    IF \A i \in 1..Len(s) : s[i] # sep
    THEN <<s>>
    ELSE LET k == CHOOSE i \in 1..Len(s) : s[i] = sep /\ \A j \in 1..(i - 1) : s[j] # sep
         IN  <<SubSeq(s, 1, k - 1)>> \o SplitOn(SubSeq(s, k + 1, Len(s)), sep)

\* the keys of a query string, in order
QueryKeys(query) ==
    LET pairs == SplitOn(query, "&")
    IN  [i \in 1..Len(pairs) |-> SplitOn(pairs[i], "=")[1]]

KeysOf(ps) == [i \in 1..Len(ps) |-> ps[i][1]]

WithoutKey(ps, key) == SelectSeq(ps, LAMBDA pair : pair[1] # key)

\* what the caller of sign_request passed for call c
CallerParams(c) == IF c.ep = "convert" THEN TransferParams(convert_assets) ELSE <<>>

(* C18.  A signed request carries the caller's parameters unchanged,      *)
(* followed by signature and timestamp and nothing else; the signature is  *)
(* computed over the caller's parameters and the timestamp only, and the   *)
(* mapping sent without signature has the keys of the signed string, in    *)
(* the same order.                                                         *)

C18_SignsCallerParamsOnly ==
    \A i \in SignedCalls :
        LET sent == calls[i].params
            given == CallerParams(calls[i])
            signed == ParamValue(sent, kSignature).msg
        IN  /\ Len(sent) = Len(given) + 2
            /\ SubSeq(sent, 1, Len(given)) = given
            /\ sent[Len(given) + 1][1] = kSignature
            /\ sent[Len(given) + 2][1] = kTimestamp
            /\ EndsWithTimestamp(signed, RefPairs(given), sent[Len(given) + 2][2])
            /\ kSignature \notin {QueryKeys(signed)[n] : n \in 1..Len(QueryKeys(signed))}
            /\ QueryKeys(signed) = KeysOf(WithoutKey(sent, kSignature))

C18_Witness ==
    /\ \E i \in CallsTo("list") : Len(calls[i].params) = 2
    /\ \E i \in CallsTo("convert") :
           /\ Len(calls[i].params) = 3
           /\ Len(calls[i].params[1][2]) > 1

-----------------------------------------------------------------------------
\* a call of the time endpoint or of the dust-list endpoint failed
FailedBeforeConversion ==
    \E i \in CallsTo("time") \cup CallsTo("list") : ~Succeeded(calls[i])

(* C19.  A run invokes the notifier at most once, and only after the       *)
(* conversion call of that run was answered with an HTTP response; a run   *)
(* in which a time fetch or the dust-list call failed ends in Errored and  *)
(* never invokes the notifier.                                             *)

C19_NotifiedOnceAfterConversion ==
    /\ Cardinality(CallsTo("telegram")) <= 1
    /\ \A i \in CallsTo("telegram") :
           \E j \in CallsTo("convert") : j < i /\ calls[j].result.kind = "response"
    /\ pc = "notify" =>
           /\ CallsTo("telegram") = {}
           /\ \E j \in CallsTo("convert") : calls[j].result.kind = "response"
    /\ FailedBeforeConversion => CallsTo("telegram") = {} /\ EndedErrored

C19_Witness ==
    /\ Cardinality(CallsTo("telegram")) = 1
    /\ \E j \in CallsTo("convert") : Refused(calls[j])
    /\ runs = 2
    /\ history = <<"Errored">>

-----------------------------------------------------------------------------
\* sent is given followed by the signature of given at t and by t
SignedAs(sent, given, t) ==
    LET n == Len(given)
    IN  /\ Len(sent) = n + 2
        /\ SubSeq(sent, 1, n) = given
        /\ sent[n + 1][1] = kSignature
        /\ sent[n + 1][2].key = "s3cr3t"
        /\ EndsWithTimestamp(sent[n + 1][2].msg, RefPairs(given), t)
        /\ sent[n + 2] = <<kTimestamp, t>>

\* call i of the run is the call the responses before it determine
CallDetermined(i) ==
    LET c == calls[i]
    IN  CASE i \in {1, 3} ->
               /\ c.ep = "time" /\ c.method = "get"
               /\ c.params = NoParams /\ c.payload = None
          [] i = 2 ->
               /\ c.ep = "list" /\ c.method = "get" /\ c.payload = None
               /\ SignedAs(c.params, <<>>, calls[1].result.body.val.serverTime)
          [] i = 4 ->
               /\ c.ep = "convert" /\ c.method = "post" /\ c.payload = None
               /\ Len(c.params) = 3
               /\ c.params[1][1] = kAsset
               /\ SplitComma(c.params[1][2]) = RefFilter(calls[2].result.body.val, {USDC})
               /\ SignedAs(c.params, <<c.params[1]>>, calls[3].result.body.val.serverTime)
          [] i = 5 ->
               /\ c.ep = "telegram" /\ c.method = "post" /\ c.params = NoParams
               /\ c.payload = [chat_id |-> "telegram_chat_id",
                               text |-> [json_dumps |-> calls[4].result.body.val],
                               parse_mode |-> "Markdown"]
          [] OTHER -> FALSE

\* where a run stands after the calls cs, by their responses alone
RunPosition(cs) ==
    CASE Len(cs) = 0 -> "list_time"
      [] Len(cs) = 1 -> IF Succeeded(cs[1]) THEN "list_request" ELSE "Errored"
      [] Len(cs) = 2 -> IF ~Succeeded(cs[2]) THEN "Errored"
                        ELSE IF cs[2].result.body.val = <<>> THEN "Done"
                        ELSE "convert_time"
      [] Len(cs) = 3 -> IF Succeeded(cs[3]) THEN "convert_request" ELSE "Errored"
      [] Len(cs) = 4 -> IF cs[4].result.kind = "response" /\ cs[4].result.body.json
                        THEN "notify" ELSE "Errored"
      [] OTHER -> IF Broke(cs[5]) \/ ~Succeeded(cs[4]) THEN "Errored" ELSE "Done"

(* C20.  No state is carried between runs: in every run, whatever the runs *)
(* before it did, the client holds the credential and the ignore list of   *)
(* its construction, every call and its arguments are determined by the    *)
(* responses the run has received, and so is the point the run has         *)
(* reached.                                                                *)

C20_NoStateBetweenRuns ==
    runs > 0 =>
        /\ mexc = [api_key |-> "api_key", secret_key |-> "s3cr3t",
                   base_url |-> "mexc_host", ignore_assets |-> <<USDC>>]
        /\ \A i \in 1..Len(calls) : CallDetermined(i)
        /\ IF pc = "idle"
           THEN history[Len(history)] = RunPosition(calls)
           ELSE pc = RunPosition(calls)

C20_Witness ==
    /\ runs = 2
    /\ history = <<"Errored">>
    /\ pc = "Done"
    /\ \E i \in CallsTo("convert") : Len(calls[i].params[1][2]) > 1

=============================================================================
